---- MODULE Spec2Model ----
(***************************************************************************)
(* Model of code/abstract_model.py (class Qa_model): the preprocessing     *)
(* functions read_and_pad and span_to_y, the metrics get_f1 and            *)
(* get_exact_match, the batch cycler (initialize_batch_processing,         *)
(* next_batch) and the training loop train.                                *)
(*                                                                         *)
(* numpy arrays are functions over 0..n-1 (0-based, as in the source);     *)
(* Python lists that are only appended to are sequences.  Floats are exact *)
(* rationals <<numerator, denominator>> in lowest terms.                   *)
(***************************************************************************)
EXTENDS Integers, Sequences, FiniteSets, TLC

\* ------------------------------------------------------------------ bounds
MaxL == 3            \* largest one-hot length given to span_to_y
MaxRows == 2         \* most rows of a span array given to span_to_y
MaxLines == 2        \* most lines of a file given to read_and_pad
MaxTokens == 2       \* most ids on one line of that file
MaxPadLen == 2       \* largest target length given to read_and_pad
MaxCLen == 3         \* largest max_c_length the metrics are called with
MaxSamples == 1      \* most samples the metrics are called with
MaxN == 3            \* most samples of a data set the batch cycler is driven over
MaxB == 4            \* largest batch size the batch cycler is driven with
MaxPermN == 5        \* largest n for which every permutation of [0, n) is drawn
MaxEpochs == 2       \* largest FLAGS.epochs train is run with
LoadedCLen == 3      \* max_c_length of the data the cycler and train run over

VARIABLES
    y,               \* span_to_y: the array of (start_id, end_id) rows
    max_length,      \* span_to_y: the length of the one-hot vectors
    spanOut,         \* span_to_y: what the call returned or raised
    lines,           \* read_and_pad: the lines of the file, as characters
    length,          \* read_and_pad: the target length of each row
    pad_value,       \* read_and_pad: the id used for padding
    padOut,          \* read_and_pad: what the call returned or raised
    max_c_length,    \* self.max_c_length
    yS,              \* one-hot gold start rows (self.yS, argument yS)
    yE,              \* one-hot gold end rows (self.yE, argument yE)
    ypS,             \* predicted start indices (predictionS, argument ypS)
    ypE,             \* predicted end indices (predictionE, argument ypE)
    metricOut,       \* get_f1 / get_exact_match: what the call returned or raised
    X_c_mask,        \* self.X_c_mask: one boolean row per training sample
    batch_size,      \* the batch size next_batch is called with (FLAGS.batch_size)
    permutation,     \* the ordering mode given to initialize_batch_processing
    batch_index,     \* self.batch_index, the cursor
    max_batch_index, \* self.max_batch_index
    batch_permutation, \* self.batch_permutation
    batch,           \* self.batch_permutation[start:end] of the last next_batch call
    passLog,         \* the batches returned since the cursor was last 0
    pc,              \* where the caller of the batch cycler stands
    epochs,          \* FLAGS.epochs
    stepFn,          \* the network add_prediction_and_loss supplies, run by sess.run
    index_epoch,     \* train: the epoch loop variable
    step,            \* train: iterations of the inner loop done in this epoch
    losses,          \* train: rolling accumulators
    EMs,
    f1s,
    grad_norms,
    global_losses,   \* train: training histories
    global_EMs,
    global_f1s,
    global_grad_norms,
    EMs_val,         \* train: validation histories
    F1s_val,
    epochLog,        \* the batches next_batch returned in this epoch
    raised,          \* the call whose exception left train, "none" if none did
    hookLog          \* the calls of plot_metrics and plot_evaluation_metrics

spanVars == <<y, max_length, spanOut>>
padVars == <<lines, length, pad_value, padOut>>
metricVars == <<max_c_length, yS, yE, ypS, ypE, metricOut>>
dataVars == <<max_c_length, yS, yE, X_c_mask, batch_size>>
cyclerVars == <<permutation, batch_index, max_batch_index, batch_permutation, batch, passLog>>
accVars == <<losses, EMs, f1s, grad_norms>>
histVars == <<global_losses, global_EMs, global_f1s, global_grad_norms>>
valVars == <<EMs_val, F1s_val>>
trainVars == <<epochs, stepFn, index_epoch, step, accVars, histVars, valVars, epochLog,
               raised, hookLog>>
vars == <<spanVars, padVars, metricVars, X_c_mask, batch_size, cyclerVars, pc, trainVars>>

\* ------------------------------------------------------- numpy primitives
Len0(a) == Cardinality(DOMAIN a)

Rows(n, Vals) == [0..(n - 1) -> Vals]

NpZeros(n) == [j \in 0..(n - 1) |-> 0]

\* a[i] with an integer i: numpy accepts -n <= i < n and counts a negative
\* index from the end; anything else raises IndexError
NpInRange(i, n) == (0 - n) <= i /\ i < n

NpPos(i, n) == IF i < 0 THEN i + n ELSE i

NpSetItem(a, i, v) == [a EXCEPT ![NpPos(i, Len0(a))] = v]

\* np.argmax: the first index holding the maximum
NpArgmax(a) ==
    CHOOSE i \in DOMAIN a :
        /\ \A j \in DOMAIN a : a[j] <= a[i]
        /\ \A j \in DOMAIN a : j < i => a[j] < a[i]

\* ------------------------------------------------------------- span_to_y
Pending == [raised |-> "pending"]

\* span_to_y with the two label vectors filled from the wrong columns
span_to_y_swapped(yy, max_len) ==
    LET n == Len0(yy)
        raises == \E i \in 0..(n - 1) :
                      \/ ~NpInRange(yy[i][1], max_len)
                      \/ ~NpInRange(yy[i][2], max_len)
    IN  IF raises
        THEN [raised |-> "IndexError"]
        ELSE [raised |-> "none",
              S |-> [i \in 0..(n - 1) |->
                        NpSetItem(NpZeros(max_len), yy[i][2], 1)],
              E |-> [i \in 0..(n - 1) |->
                        NpSetItem(NpZeros(max_len), yy[i][1], 1)]]

\* row i of the argument is <<start_id, end_id>> (columns 0 and 1)
span_to_y(yy, max_len) ==
    LET n == Len0(yy)
        start_ids == [i \in 0..(n - 1) |-> yy[i][1]]
        end_ids == [i \in 0..(n - 1) |-> yy[i][2]]
        raises == \E i \in 0..(n - 1) :
                      \/ ~NpInRange(start_ids[i], max_len)
                      \/ ~NpInRange(end_ids[i], max_len)
    IN  IF raises
        THEN [raised |-> "IndexError"]
        ELSE [raised |-> "none",
              S |-> [i \in 0..(n - 1) |->
                        NpSetItem(NpZeros(max_len), start_ids[i], 1)],
              E |-> [i \in 0..(n - 1) |->
                        NpSetItem(NpZeros(max_len), end_ids[i], 1)]]

\* ----------------------------------------------------------- read_and_pad
Min(a, b) == IF a < b THEN a ELSE b

Max(a, b) == IF a < b THEN b ELSE a

\* a Python list as a numpy array
NpArray(list) == [i \in 0..(Len(list) - 1) |-> list[i + 1]]

Repeat(n, v) == [i \in 1..n |-> v]

\* str.split(): the maximal runs of characters that are not whitespace
RECURSIVE SplitFrom(_, _, _)
SplitFrom(s, cur, acc) ==
    IF s = <<>>
    THEN IF cur = <<>> THEN acc ELSE Append(acc, cur)
    ELSE IF Head(s) = " "
         THEN SplitFrom(Tail(s), <<>>, IF cur = <<>> THEN acc ELSE Append(acc, cur))
         ELSE SplitFrom(Tail(s), Append(cur, Head(s)), acc)

Split(s) == SplitFrom(s, <<>>, <<>>)

Digits == {"0", "1", "2", "3", "4", "5", "6", "7", "8", "9"}

DigitVal(c) ==
    CASE c = "0" -> 0 [] c = "1" -> 1 [] c = "2" -> 2 [] c = "3" -> 3
      [] c = "4" -> 4 [] c = "5" -> 5 [] c = "6" -> 6 [] c = "7" -> 7
      [] c = "8" -> 8 [] c = "9" -> 9

\* the conversion np.array(..., dtype=np.int32) applies to an element: an
\* int (the pad value) is kept, a string of decimal digits is read as a
\* number, any other string raises ValueError
IsIntLiteral(tok) == \A k \in 1..Len(tok) : tok[k] \in Digits

RECURSIVE ParseInt(_)
ParseInt(tok) ==
    IF tok = <<>> THEN 0
    ELSE 10 * ParseInt(SubSeq(tok, 1, Len(tok) - 1)) + DigitVal(tok[Len(tok)])

\* the loop body with the mask built before the line is cut to length
PadLine_mask_uncut(line, len, pad) ==
    LET cut == SubSeq(line, 1, Min(len, Len(line)))
        add_length == len - Len(cut)
    IN  [kept |-> cut,
         add |-> add_length,
         mask |-> Repeat(Len(line), TRUE) \o Repeat(add_length, FALSE)]

\* the loop body of read_and_pad for one split line
PadLine(line, len, pad) ==
    LET cut == SubSeq(line, 1, Min(len, Len(line)))
        add_length == len - Len(cut)
    IN  [kept |-> cut,
         add |-> add_length,
         mask |-> Repeat(Len(cut), TRUE) \o Repeat(add_length, FALSE)]

read_and_pad(file, len, pad) ==
    LET split == [i \in 1..Len(file) |-> Split(file[i])]
        padded == [i \in 1..Len(file) |-> PadLine(split[i], len, pad)]
        raises == \E i \in 1..Len(file) :
                      \E k \in 1..Len(padded[i].kept) :
                          ~IsIntLiteral(padded[i].kept[k])
    IN  IF raises
        THEN [raised |-> "ValueError"]
        ELSE [raised |-> "none",
              ids |-> NpArray([i \in 1..Len(file) |->
                         NpArray([k \in 1..Len(padded[i].kept) |->
                                     ParseInt(padded[i].kept[k])]
                                 \o Repeat(padded[i].add, pad))]),
              mask |-> NpArray([i \in 1..Len(file) |-> NpArray(padded[i].mask)])]

SeqsUpTo(n, Vals) == UNION {[1..k -> Vals] : k \in 0..n}

\* the ids written in the lines tried: 1 and 21
Tokens == {<<"1">>, <<"2", "1">>}

\* the tokens of a line written with one blank between them
RECURSIVE Join(_)
Join(toks) ==
    IF toks = <<>> THEN <<>>
    ELSE IF Len(toks) = 1 THEN Head(toks)
    ELSE Head(toks) \o <<" ">> \o Join(Tail(toks))

\* the lines tried: every line of up to MaxTokens ids, lines with blanks
\* only, blanks around an id and two blanks between ids, and two lines
\* holding a token that is not a number
LineSet ==
    {Join(toks) : toks \in SeqsUpTo(MaxTokens, Tokens)}
        \cup {<<" ">>, <<" ", "1", " ">>, <<"1", " ", " ", "2", "1">>}
        \cup {<<"x">>, <<"1", " ", "x">>}

PadValues == {0 - 1, 1}

IdlePad == lines = <<>> /\ length = 0 /\ pad_value = 0 /\ padOut = Pending

InitPad ==
    /\ lines \in SeqsUpTo(MaxLines, LineSet)
    /\ length \in 0..MaxPadLen
    /\ pad_value \in PadValues
    /\ padOut = Pending

CallReadAndPad ==
    /\ padOut = Pending
    /\ padOut' = read_and_pad(lines, length, pad_value)
    /\ UNCHANGED <<lines, length, pad_value>>

\* ------------------------------------------------------ rational numbers
RECURSIVE GCD(_, _)
GCD(a, b) == IF b = 0 THEN a ELSE GCD(b, a % b)

\* n / d in lowest terms, d > 0
Rat(n, d) == LET g == GCD(IF n < 0 THEN 0 - n ELSE n, d)
             IN  IF n = 0 THEN <<0, 1>> ELSE <<n \div g, d \div g>>

RAdd(p, q) == Rat(p[1] * q[2] + q[1] * p[2], p[2] * q[2])

RMul(p, q) == Rat(p[1] * q[1], p[2] * q[2])

\* p / q for q > 0
RDiv(p, q) == Rat(p[1] * q[2], p[2] * q[1])

\* ---------------------------------------------------------------- metrics
\* the positions a[lo:hi] names in an array of n entries
NpSliceBound(i, n) == IF i < 0 THEN Max(i + n, 0) ELSE Min(i, n)

NpSlice(lo, hi, n) == {j \in 0..(n - 1) : NpSliceBound(lo, n) <= j /\ j < NpSliceBound(hi, n)}

\* a[lo:hi] = v
NpSetSlice(a, lo, hi, v) ==
    [j \in DOMAIN a |-> IF j \in NpSlice(lo, hi, Len0(a)) THEN v ELSE a[j]]

RECURSIVE NpSum(_)
NpSum(a) == IF DOMAIN a = {} THEN 0
            ELSE LET k == Len0(a) - 1
                 IN  a[k] + NpSum([j \in 0..(k - 1) |-> a[j]])

\* the vector y of get_f1: the gold span
GoldCoverage(rowS, rowE, c_len) ==
    LET s == NpArgmax(rowS)
        e == NpArgmax(rowE)
    IN  NpSetSlice(NpZeros(c_len), s, e + 1, 1)

\* the vector yp with only the first of the two slice assignments
PredCoverage_one_way(pS, pE, c_len) == NpSetSlice(NpZeros(c_len), pS, pE + 1, 1)

\* the vector yp of get_f1: the predicted span, marked in both directions
PredCoverage(pS, pE, c_len) ==
    NpSetSlice(NpSetSlice(NpZeros(c_len), pS, pE + 1, 1), pE, pS + 1, 1)

\* what one sample adds to f1_tot
F1Sample(rowS, rowE, pS, pE, c_len) ==
    LET yv == GoldCoverage(rowS, rowE, c_len)
        yp == PredCoverage(pS, pE, c_len)
        n_true_pos == NpSum([j \in DOMAIN yv |-> yv[j] * yp[j]])
        n_pred_pos == NpSum(yp)
        n_actual_pos == NpSum(yv)
        precision == Rat(n_true_pos, n_pred_pos)
        recall == Rat(n_true_pos, n_actual_pos)
    IN  IF n_true_pos = 0
        THEN <<0, 1>>
        ELSE RDiv(RMul(<<2, 1>>, RMul(precision, recall)), RAdd(precision, recall))

RECURSIVE F1Total(_, _, _, _, _, _)
F1Total(k, gS, gE, pS, pE, c_len) ==
    IF k = 0 THEN <<0, 1>>
    ELSE RAdd(F1Total(k - 1, gS, gE, pS, pE, c_len),
              F1Sample(gS[k - 1], gE[k - 1], pS[k - 1], pE[k - 1], c_len))

get_f1(gS, gE, pS, pE, c_len) ==
    LET f1_tot == F1Total(Len0(gS), gS, gE, pS, pE, c_len)
    IN  IF Len0(gS) = 0
        THEN [raised |-> "ZeroDivisionError"]
        ELSE [raised |-> "none", value |-> RDiv(f1_tot, <<Len0(gS), 1>>)]

get_exact_match(gS, gE, pS, pE) ==
    LET count == Cardinality({i \in 0..(Len0(gS) - 1) :
                     NpArgmax(gS[i]) = pS[i] /\ NpArgmax(gE[i]) = pE[i]})
    IN  IF Len0(gS) = 0
        THEN [raised |-> "ZeroDivisionError"]
        ELSE [raised |-> "none", value |-> Rat(count, Len0(gS))]

IdleMetric ==
    /\ max_c_length = 0 /\ yS = <<>> /\ yE = <<>> /\ ypS = <<>> /\ ypE = <<>>
    /\ metricOut = Pending

\* the gold spans tried: every span with start <= end, and one whose start
\* lies after its end
GoldSpans(c_len) ==
    {p \in (0..(c_len - 1)) \X (0..(c_len - 1)) : p[1] <= p[2]} \cup {<<c_len - 1, 0>>}

\* gold rows come from span_to_y (load_and_preprocess_data), predictions are
\* positions of the context
InitMetric ==
    /\ max_c_length \in 1..MaxCLen
    /\ \E n \in 0..MaxSamples :
          /\ \E g \in Rows(n, GoldSpans(max_c_length)) :
                /\ yS = span_to_y(g, max_c_length).S
                /\ yE = span_to_y(g, max_c_length).E
          /\ ypS \in Rows(n, 0..(max_c_length - 1))
          /\ ypE \in Rows(n, 0..(max_c_length - 1))
    /\ metricOut = Pending

CallGetF1 ==
    /\ metricOut = Pending
    /\ metricOut' = [fn |-> "get_f1"] @@ get_f1(yS, yE, ypS, ypE, max_c_length)
    /\ UNCHANGED <<max_c_length, yS, yE, ypS, ypE>>

CallGetExactMatch ==
    /\ metricOut = Pending
    /\ metricOut' = [fn |-> "get_exact_match"] @@ get_exact_match(yS, yE, ypS, ypE)
    /\ UNCHANGED <<max_c_length, yS, yE, ypS, ypE>>

\* ----------------------------------------------------------- loaded data

\* the span of training sample i (a row of train.span)
TrainSpan(i) == <<i % 2, (i % 2) + ((i % 3) % 2)>>

\* self.yS, self.yE as load_and_preprocess_data sets them for n samples
LoadedY(n, c_len) == span_to_y([i \in 0..(n - 1) |-> TrainSpan(i)], c_len)

\* the numbers of words of the context paragraphs tried
CtxLens == {1, 2}

\* a mask row of c_len entries of which the first k are real
MaskRow(k, c_len) == [j \in 0..(c_len - 1) |-> j < k]

\* ---------------------------------------------------------- batch cycler
Identity(n) == [i \in 0..(n - 1) |-> i]

PermutationsOf(n) ==
    {f \in [0..(n - 1) -> 0..(n - 1)] : \A i, j \in 0..(n - 1) : f[i] = f[j] => i = j}

\* the permutations tried for n > MaxPermN: rotations of the identity and of
\* its reverse
SampledPermutations(n) ==
    {[i \in 0..(n - 1) |-> (i + r) % n] : r \in {0, 1, n - 1}} \cup
    {[i \in 0..(n - 1) |-> (n - 1 - i + r) % n] : r \in {0, 1}}

\* np.random.permutation(n): any permutation of [0, n)
RandomPermutation(n) == IF n <= MaxPermN THEN PermutationsOf(n) ELSE SampledPermutations(n)

\* np.sum(mask, axis=1)
RowSums(mask) == [i \in DOMAIN mask |-> Cardinality({j \in DOMAIN mask[i] : mask[i][j]})]

\* np.argsort(keys): an ordering of the positions by ascending key; the
\* default sort is not stable, equal keys come in any order
Argsort(keys) ==
    {f \in PermutationsOf(Len0(keys)) :
        \A i, j \in DOMAIN keys : i < j => keys[f[i]] <= keys[f[j]]}

\* a[lo:hi] of a 1-D array, as the list of its entries
NpTake(a, lo, hi) ==
    LET first == NpSliceBound(lo, Len0(a))
        last == NpSliceBound(hi, Len0(a))
    IN  [k \in 1..Max(last - first, 0) |-> a[first + k - 1]]

Modes == {"None", "by_length", "random"}

initialize_batch_processing(n_samples, mode) ==
    /\ batch_index' = 0
    /\ max_batch_index' = n_samples
    /\ permutation' = mode
    /\ batch_permutation' \in
          (IF mode = "by_length" THEN Argsort(RowSums(X_c_mask))
           ELSE IF mode = "random" THEN RandomPermutation(n_samples)
           ELSE {Identity(n_samples)})
    /\ UNCHANGED <<batch, passLog>>

\* next_batch checking for exhaustion right after advancing the cursor
next_batch_eager_wrap(B) ==
    LET start == batch_index
        end == start + B
        res == NpTake(batch_permutation, start, end)
        wrap == end >= max_batch_index
    IN  \E p \in (IF wrap THEN RandomPermutation(max_batch_index) ELSE {batch_permutation}) :
            /\ batch_permutation' = p
            /\ batch_index' = IF wrap THEN 0 ELSE end
            /\ batch' = res
            /\ passLog' = IF start = 0 THEN <<res>> ELSE Append(passLog, res)
            /\ UNCHANGED <<permutation, max_batch_index>>

\* next_batch drawing a new permutation at the wrap but keeping the cursor
next_batch_no_reset(B) ==
    LET wrap == batch_index >= max_batch_index
    IN  \E p \in (IF wrap THEN RandomPermutation(max_batch_index) ELSE {batch_permutation}) :
            LET start == batch_index
                end == start + B
                res == NpTake(p, start, end)
            IN  /\ batch_permutation' = p
                /\ batch_index' = start + B
                /\ batch' = res
                /\ passLog' = IF wrap \/ start = 0 THEN <<res>> ELSE Append(passLog, res)
                /\ UNCHANGED <<permutation, max_batch_index>>

\* the returned arrays are the rows batch_permutation[start:end] of X_c,
\* X_c_mask, X_q, X_q_mask, yS and yE; batch holds those row numbers
next_batch(B) ==
    LET wrap == batch_index >= max_batch_index
    IN  \E p \in (IF wrap THEN RandomPermutation(max_batch_index) ELSE {batch_permutation}) :
            LET start == IF wrap THEN 0 ELSE batch_index
                end == start + B
                res == NpTake(p, start, end)
            IN  /\ batch_permutation' = p
                /\ batch_index' = start + B
                /\ batch' = res
                /\ passLog' = IF start = 0 THEN <<res>> ELSE Append(passLog, res)
                /\ UNCHANGED <<permutation, max_batch_index>>

IdleTrain ==
    /\ epochs = 0 /\ stepFn = "none" /\ index_epoch = 0 /\ step = 0
    /\ losses = <<>> /\ EMs = <<>> /\ f1s = <<>> /\ grad_norms = <<>>
    /\ global_losses = <<>> /\ global_EMs = <<>> /\ global_f1s = <<>>
    /\ global_grad_norms = <<>>
    /\ EMs_val = <<>> /\ F1s_val = <<>>
    /\ epochLog = <<>> /\ raised = "none" /\ hookLog = <<>>

IdleCycler ==
    /\ X_c_mask = <<>> /\ batch_size = 0 /\ permutation = "None"
    /\ batch_index = 0 /\ max_batch_index = 0 /\ batch_permutation = <<>>
    /\ batch = <<>> /\ passLog = <<>> /\ pc = "idle"
    /\ IdleTrain

\* the object after load_and_preprocess_data, before any batch processing
LoadedCycler ==
    /\ permutation = "None" /\ batch_index = 0 /\ max_batch_index = 0
    /\ batch_permutation = <<>> /\ batch = <<>> /\ passLog = <<>>
    /\ pc = "loaded"

InitBatch ==
    /\ max_c_length = LoadedCLen
    /\ \E n \in 1..MaxN :
          /\ X_c_mask \in Rows(n, {MaskRow(k, max_c_length) : k \in CtxLens})
          /\ yS = LoadedY(n, max_c_length).S
          /\ yE = LoadedY(n, max_c_length).E
    /\ batch_size \in 1..MaxB
    /\ ypS = <<>> /\ ypE = <<>> /\ metricOut = Pending
    /\ LoadedCycler
    /\ IdleTrain

CallInitialize ==
    /\ pc = "loaded"
    /\ \E mode \in Modes : initialize_batch_processing(Len0(yS), mode)
    /\ pc' = "ready"

CallNextBatch ==
    /\ pc = "ready"
    /\ next_batch(batch_size)
    /\ pc' = "ready"

\* ------------------------------------------------------------------ train
\* len(losses) >= 20
Window == 20

\* the spans of the validation samples (the rows of val.span)
ValSpans == (0 :> <<0, 1>> @@ 1 :> <<2, 2>>)

\* self.yvalS, self.yvalE
LoadedYval(c_len) == span_to_y(ValSpans, c_len)

\* the networks train is run with: one that predicts the gold span, one
\* that predicts it reversed, one that always predicts position 0
StepFns == {"gold", "flipped", "first"}

\* what sess.run returns for the rows gS, gE fed as labels: the loss, the
\* predicted start and end of every row, and the gradient norm
SessRun(fn, gS, gE) ==
    LET s(i) == NpArgmax(gS[i])
        e(i) == NpArgmax(gE[i])
        pS == [i \in DOMAIN gS |-> IF fn = "gold" THEN s(i)
                                    ELSE IF fn = "flipped" THEN e(i) ELSE 0]
        pE == [i \in DOMAIN gS |-> IF fn = "gold" THEN e(i)
                                    ELSE IF fn = "flipped" THEN s(i) ELSE 0]
        wrong == Cardinality({i \in DOMAIN gS : pS[i] # s(i) \/ pE[i] # e(i)})
    IN  [loss |-> Rat(wrong, Len0(gS)),
         predictionS |-> pS,
         predictionE |-> pE,
         grad_norm |-> <<Len0(gS), 1>>]

\* rows of a data array picked by a list of row numbers
NpRows(a, idx) == [k \in 0..(Len(idx) - 1) |-> a[idx[k + 1]]]

RECURSIVE RSum(_)
RSum(list) == IF list = <<>> THEN <<0, 1>> ELSE RAdd(Head(list), RSum(Tail(list)))

\* np.mean of a non-empty list
NpMean(list) == RDiv(RSum(list), <<Len(list), 1>>)

\* int(n_samples / batch_size)
StepsPerEpoch == Len0(yS) \div batch_size

\* lines 308-318: the set-up before the epoch loop
TrainStart ==
    /\ pc = "loaded"
    /\ initialize_batch_processing(Len0(yS), "None")
    /\ global_losses' = <<>> /\ global_EMs' = <<>> /\ global_f1s' = <<>>
    /\ global_grad_norms' = <<>>
    /\ EMs_val' = <<>> /\ F1s_val' = <<>>
    /\ index_epoch' = 1
    /\ pc' = "epoch"
    /\ UNCHANGED <<epochs, stepFn, step, accVars, epochLog, raised, hookLog,
                   ypS, ypE>>

\* the head of an epoch with the accumulators of the last epoch kept
EpochBegin_keeps_window ==
    /\ pc = "epoch"
    /\ index_epoch <= epochs
    /\ step' = 0
    /\ epochLog' = <<>>
    /\ pc' = "step"
    /\ UNCHANGED <<epochs, stepFn, index_epoch, accVars, histVars, valVars, raised,
                   hookLog, cyclerVars, ypS, ypE>>

\* lines 320-322: the head of an epoch
EpochBegin ==
    /\ pc = "epoch"
    /\ index_epoch <= epochs
    /\ losses' = <<>> /\ EMs' = <<>> /\ f1s' = <<>> /\ grad_norms' = <<>>
    /\ step' = 0
    /\ epochLog' = <<>>
    /\ pc' = "step"
    /\ UNCHANGED <<epochs, stepFn, index_epoch, histVars, valVars, raised, hookLog,
                   cyclerVars, ypS, ypE>>

\* lines 325-327: a training step draws its batch
StepDraw ==
    /\ pc = "step"
    /\ step < StepsPerEpoch
    /\ next_batch(batch_size)
    /\ epochLog' = Append(epochLog, batch')
    /\ pc' = "run"
    /\ UNCHANGED <<epochs, stepFn, index_epoch, step, accVars, histVars, valVars,
                   raised, hookLog, ypS, ypE>>

\* lines 329-344: sess.run returns, the step is scored and the window
\* flushed when it is full
StepRun ==
    /\ pc = "run"
    /\ LET batch_yS == NpRows(yS, batch)
           batch_yE == NpRows(yE, batch)
           out == SessRun(stepFn, batch_yS, batch_yE)
           em == get_exact_match(batch_yS, batch_yE, out.predictionS, out.predictionE)
           f1 == get_f1(batch_yS, batch_yE, out.predictionS, out.predictionE, max_c_length)
           l2 == Append(losses, out.loss)
           e2 == Append(EMs, em.value)
           f2 == Append(f1s, f1.value)
           g2 == Append(grad_norms, out.grad_norm)
       IN  /\ em.raised = "none" /\ f1.raised = "none"
           /\ ypS' = out.predictionS
           /\ ypE' = out.predictionE
           /\ IF Len(l2) >= Window
              THEN /\ global_losses' = Append(global_losses, NpMean(l2))
                   /\ global_EMs' = Append(global_EMs, NpMean(e2))
                   /\ global_f1s' = Append(global_f1s, NpMean(f2))
                   /\ global_grad_norms' = Append(global_grad_norms, NpMean(g2))
                   /\ losses' = <<>> /\ EMs' = <<>> /\ f1s' = <<>> /\ grad_norms' = <<>>
              ELSE /\ losses' = l2 /\ EMs' = e2 /\ f1s' = f2 /\ grad_norms' = g2
                   /\ UNCHANGED histVars
    /\ step' = step + 1
    /\ pc' = "step"
    /\ UNCHANGED <<epochs, stepFn, index_epoch, valVars, epochLog, raised, hookLog,
                   cyclerVars>>

\* sess.run raising with the cursor put back to where the step found it
StepRaise_rollback ==
    /\ pc = "run"
    /\ raised' = "train_step"
    /\ pc' = "raised"
    /\ batch_index' = batch_index - batch_size
    /\ UNCHANGED <<epochs, stepFn, index_epoch, step, accVars, histVars, valVars,
                   epochLog, hookLog, permutation, max_batch_index, batch_permutation,
                   batch, passLog, ypS, ypE>>

\* lines 329-331: sess.run raises; train has no handler, the exception
\* leaves train
StepRaise ==
    /\ pc = "run"
    /\ raised' = "train_step"
    /\ pc' = "raised"
    /\ UNCHANGED <<epochs, stepFn, index_epoch, step, accVars, histVars, valVars,
                   epochLog, hookLog, cyclerVars, ypS, ypE>>

\* the validation pass started whenever the inner loop is at its head,
\* whether or not the steps of the epoch are done
EpochValidate_early ==
    /\ pc = "step"
    /\ LET yvalS == LoadedYval(max_c_length).S
           yvalE == LoadedYval(max_c_length).E
           out == SessRun(stepFn, yvalS, yvalE)
           EM_val == get_exact_match(yvalS, yvalE, out.predictionS, out.predictionE)
           F1_val == get_f1(yvalS, yvalE, out.predictionS, out.predictionE, max_c_length)
       IN  /\ EM_val.raised = "none" /\ F1_val.raised = "none"
           /\ ypS' = out.predictionS
           /\ ypE' = out.predictionE
           /\ EMs_val' = Append(EMs_val, EM_val.value)
           /\ F1s_val' = Append(F1s_val, F1_val.value)
    /\ pc' = "plot"
    /\ UNCHANGED <<epochs, stepFn, index_epoch, step, accVars, histVars, epochLog,
                   raised, hookLog, cyclerVars>>

\* lines 347-359: after the steps of an epoch, the validation pass
EpochValidate ==
    /\ pc = "step"
    /\ step >= StepsPerEpoch
    /\ LET yvalS == LoadedYval(max_c_length).S
           yvalE == LoadedYval(max_c_length).E
           out == SessRun(stepFn, yvalS, yvalE)
           EM_val == get_exact_match(yvalS, yvalE, out.predictionS, out.predictionE)
           F1_val == get_f1(yvalS, yvalE, out.predictionS, out.predictionE, max_c_length)
       IN  /\ EM_val.raised = "none" /\ F1_val.raised = "none"
           /\ ypS' = out.predictionS
           /\ ypE' = out.predictionE
           /\ EMs_val' = Append(EMs_val, EM_val.value)
           /\ F1s_val' = Append(F1s_val, F1_val.value)
    /\ pc' = "plot"
    /\ UNCHANGED <<epochs, stepFn, index_epoch, step, accVars, histVars, epochLog,
                   raised, hookLog, cyclerVars>>

\* lines 350-351: the validation sess.run raises
ValidateRaise ==
    /\ pc = "step"
    /\ step >= StepsPerEpoch
    /\ raised' = "validation"
    /\ pc' = "raised"
    /\ UNCHANGED <<epochs, stepFn, index_epoch, step, accVars, histVars, valVars,
                   epochLog, hookLog, cyclerVars, ypS, ypE>>

\* lines 362-364: the plotting hook at the end of an epoch
EpochPlot ==
    /\ pc = "plot"
    /\ hookLog' = Append(hookLog, [hook |-> "plot_metrics",
                                    epoch |-> index_epoch,
                                    points |-> Len(global_losses),
                                    val |-> Len(EMs_val)])
    /\ index_epoch' = index_epoch + 1
    /\ pc' = "epoch"
    /\ UNCHANGED <<epochs, stepFn, step, accVars, histVars, valVars, epochLog, raised,
                   cyclerVars, ypS, ypE>>

\* line 367: after the last epoch
TrainFinish ==
    /\ pc = "epoch"
    /\ index_epoch > epochs
    /\ hookLog' = Append(hookLog, [hook |-> "plot_evaluation_metrics",
                                    epoch |-> index_epoch - 1,
                                    points |-> Len(global_losses),
                                    val |-> Len(EMs_val)])
    /\ pc' = "done"
    /\ UNCHANGED <<epochs, stepFn, index_epoch, step, accVars, histVars, valVars,
                   epochLog, raised, cyclerVars, ypS, ypE>>

\* the sizes of the training set train is run over
TrainSizes == (2..MaxN) \cup {Window, 2 * Window + 1}

InitTrain ==
    /\ max_c_length = LoadedCLen
    /\ \E n \in TrainSizes :
          /\ X_c_mask = [i \in 0..(n - 1) |-> MaskRow(1 + (i % max_c_length), max_c_length)]
          /\ yS = LoadedY(n, max_c_length).S
          /\ yE = LoadedY(n, max_c_length).E
    /\ batch_size \in 1..MaxB
    /\ ypS = <<>> /\ ypE = <<>> /\ metricOut = Pending
    /\ LoadedCycler
    /\ epochs \in 1..MaxEpochs
    /\ stepFn \in StepFns
    /\ index_epoch = 0 /\ step = 0
    /\ losses = <<>> /\ EMs = <<>> /\ f1s = <<>> /\ grad_norms = <<>>
    /\ global_losses = <<>> /\ global_EMs = <<>> /\ global_f1s = <<>>
    /\ global_grad_norms = <<>>
    /\ EMs_val = <<>> /\ F1s_val = <<>>
    /\ epochLog = <<>> /\ raised = "none" /\ hookLog = <<>>

SpanVals(len) == (0 - (len + 1))..len

IdleSpan == y = <<>> /\ max_length = 0 /\ spanOut = Pending

InitSpan ==
    /\ max_length \in 0..MaxL
    /\ \E n \in 0..MaxRows : y \in Rows(n, SpanVals(max_length) \X SpanVals(max_length))
    /\ spanOut = Pending

CallSpanToY ==
    /\ spanOut = Pending
    /\ spanOut' = span_to_y(y, max_length)
    /\ UNCHANGED <<y, max_length>>

NextSpan == CallSpanToY /\ UNCHANGED <<padVars, metricVars, X_c_mask, batch_size, cyclerVars, pc, trainVars>>

SpanInit == InitSpan /\ IdlePad /\ IdleMetric /\ IdleCycler

SpecSpan == SpanInit /\ [][NextSpan]_vars

NextPad == CallReadAndPad /\ UNCHANGED <<spanVars, metricVars, X_c_mask, batch_size, cyclerVars, pc, trainVars>>

PadInit == InitPad /\ IdleSpan /\ IdleMetric /\ IdleCycler

SpecPad == PadInit /\ [][NextPad]_vars

NextMetric ==
    \/ CallGetF1 /\ UNCHANGED <<spanVars, padVars, X_c_mask, batch_size, cyclerVars, pc, trainVars>>
    \/ CallGetExactMatch /\ UNCHANGED <<spanVars, padVars, X_c_mask, batch_size, cyclerVars, pc, trainVars>>

MetricInit == InitMetric /\ IdleSpan /\ IdlePad /\ IdleCycler

NextBatch ==
    \/ CallInitialize /\ UNCHANGED <<spanVars, padVars, metricVars, X_c_mask, batch_size, trainVars>>
    \/ CallNextBatch /\ UNCHANGED <<spanVars, padVars, metricVars, X_c_mask, batch_size, trainVars>>

BatchInit == InitBatch /\ IdleSpan /\ IdlePad

fixedInTrain == <<spanVars, padVars, max_c_length, yS, yE, metricOut, X_c_mask, batch_size>>

NextTrain ==
    \/ TrainStart /\ UNCHANGED fixedInTrain
    \/ EpochBegin /\ UNCHANGED fixedInTrain
    \/ StepDraw /\ UNCHANGED fixedInTrain
    \/ StepRun /\ UNCHANGED fixedInTrain
    \/ StepRaise /\ UNCHANGED fixedInTrain
    \/ EpochValidate /\ UNCHANGED fixedInTrain
    \/ ValidateRaise /\ UNCHANGED fixedInTrain
    \/ EpochPlot /\ UNCHANGED fixedInTrain
    \/ TrainFinish /\ UNCHANGED fixedInTrain

TrainInit == InitTrain /\ IdleSpan /\ IdlePad

SpecTrain == TrainInit /\ [][NextTrain]_vars

SpecBatch == BatchInit /\ [][NextBatch]_vars

SpecMetric == MetricInit /\ [][NextMetric]_vars

CeilDiv(a, b) == (a + b - 1) \div b

RECURSIVE Flatten(_)
Flatten(log) == IF log = <<>> THEN <<>> ELSE Head(log) \o Flatten(Tail(log))

NoDuplicates(list) == \A i, j \in 1..Len(list) : list[i] = list[j] => i = j

Elements(list) == {list[i] : i \in 1..Len(list)}

\* C1: from a fresh pass (cursor 0 after initialization in any ordering mode,
\* or a wrap), the next ceil(N/B) calls of next_batch(B) return batches that
\* together hold every index of [0, N) exactly once; all of them but the last
\* have B indices and the last has the N mod B remaining ones when B does not
\* divide N.
C1_PassCoversEveryIndexOnce ==
    (pc = "ready" /\ passLog # <<>>)
        => LET N == max_batch_index
               B == batch_size
               k == Len(passLog)
               all == Flatten(passLog)
           IN  /\ k <= CeilDiv(N, B)
               /\ batch_index = k * B
               /\ NoDuplicates(all)
               /\ \A i \in 1..k : i < CeilDiv(N, B) => Len(passLog[i]) = B
               /\ k = CeilDiv(N, B)
                     => /\ Elements(all) = 0..(N - 1)
                        /\ Len(all) = N
                        /\ Len(passLog[k]) = (IF N % B = 0 THEN B ELSE N % B)

\* a pass over a permutation that is not the identity has been completed,
\* its last batch holding the one index left over
C1_Witness ==
    /\ pc = "ready"
    /\ max_batch_index = 3
    /\ batch_size = 2
    /\ permutation = "by_length"
    /\ batch_permutation = (0 :> 2 @@ 1 :> 0 @@ 2 :> 1)
    /\ passLog = <<(<<2, 0>>), (<<1>>)>>
    /\ batch_index = 4

\* C9: the permutation and the cursor change only at initialization and in
\* next_batch.  Initialization sets the cursor to 0 and the permutation to a
\* permutation of [0, N), the identity in sequential mode.  next_batch(B)
\* entered with cursor < N keeps the permutation, returns its entries
\* [cursor, cursor + B) and sets the cursor to cursor + B without wrapping;
\* entered with cursor >= N it replaces the permutation by some permutation
\* of [0, N), whatever the ordering mode, returns its first B entries and
\* leaves the cursor at B.
C9_CursorAndPermutationSteps ==
    [][(batch_index' # batch_index \/ batch_permutation' # batch_permutation)
         => \/ /\ pc = "loaded"
               /\ batch_index' = 0
               /\ batch_permutation' \in PermutationsOf(max_batch_index')
               /\ permutation' = "None" => batch_permutation' = Identity(max_batch_index')
            \/ /\ pc # "loaded"
               /\ batch_index < max_batch_index
               /\ batch_permutation' = batch_permutation
               /\ max_batch_index' = max_batch_index
               /\ batch_index' = batch_index + batch_size
               /\ batch' = [k \in 1..(Min(batch_index + batch_size, max_batch_index) - batch_index)
                                |-> batch_permutation[batch_index + k - 1]]
            \/ /\ pc # "loaded"
               /\ batch_index >= max_batch_index
               /\ batch_permutation' \in PermutationsOf(max_batch_index)
               /\ max_batch_index' = max_batch_index
               /\ batch_index' = batch_size
               /\ batch' = [k \in 1..Min(batch_size, max_batch_index)
                                |-> batch_permutation'[k - 1]]]_vars

\* after a sequential first pass that overshot N, the wrap has drawn a
\* permutation that is not the identity and returned its first batch
C9_Witness ==
    /\ pc = "ready"
    /\ permutation = "None"
    /\ max_batch_index = 3
    /\ batch_size = 2
    /\ batch_permutation = (0 :> 1 @@ 1 :> 2 @@ 2 :> 0)
    /\ batch_index = 2
    /\ batch = <<1, 2>>

\* C2: an epoch of train is one full iteration over the training samples:
\* for N >= B >= 1 the batches drawn by the floor(N/B) steps of any epoch
\* together hold every sample index of [0, N).
C2_EpochCoversEverySample ==
    (pc = "step" /\ step = StepsPerEpoch /\ Len0(yS) >= batch_size)
        => Elements(Flatten(epochLog)) = 0..(Len0(yS) - 1)

\* the lengths the accumulators and histories have after `step` steps of
\* epoch index_epoch
LengthsMatchProgress ==
    /\ Len(losses) = step % Window
    /\ Len(EMs) = step % Window
    /\ Len(f1s) = step % Window
    /\ Len(grad_norms) = step % Window
    /\ Len(global_losses) = (index_epoch - 1) * (StepsPerEpoch \div Window) + step \div Window
    /\ Len(global_EMs) = Len(global_losses)
    /\ Len(global_f1s) = Len(global_losses)
    /\ Len(global_grad_norms) = Len(global_losses)

\* C3: when sess.run raises in a training step, the exception leaves train:
\* the raising step changes nothing but the control state, nothing changes
\* afterwards (no batch is drawn, nothing is appended, no validation and no
\* plotting runs), and the cursor keeps the advance of the failed step's
\* next_batch call.
C3_StepFailurePropagates ==
    /\ [](raised = "train_step"
            => /\ pc = "raised"
               /\ batch_index = Len(passLog) * batch_size
               /\ batch = passLog[Len(passLog)]
               /\ Len(epochLog) = step + 1
               /\ LengthsMatchProgress
               /\ Len(EMs_val) = index_epoch - 1
               /\ Len(F1s_val) = index_epoch - 1
               /\ Len(hookLog) = index_epoch - 1)
    /\ [][(raised = "none" /\ raised' = "train_step")
             => /\ pc = "run"
                /\ UNCHANGED <<cyclerVars, accVars, histVars, valVars, hookLog, step,
                               index_epoch, epochLog>>]_vars
    /\ [][raised = "train_step" => UNCHANGED vars]_vars

\* a training step of the second epoch has failed after its next_batch call
\* moved the cursor beyond N
C3_Witness ==
    /\ raised = "train_step"
    /\ pc = "raised"
    /\ index_epoch = 2
    /\ Len0(yS) = 3
    /\ batch_size = 2
    /\ batch_index = 4
    /\ Len(EMs_val) = 1

Last(list) == list[Len(list)]

GrowsByAtMostOne(old, new) == new = old \/ (Len(new) = Len(old) + 1 /\ SubSeq(new, 1, Len(old)) = old)

\* C10: with S = floor(N/batchSize), the accumulators are empty at the start
\* of every epoch, hold the step values of the current window (at most 19
\* after any step), and on reaching 20 entries are flushed as one mean point
\* into each of the four training histories and cleared; a partial window at
\* the end of an epoch is dropped.  So after e completed epochs each history
\* holds e * floor(S/20) points, the four histories have equal length and
\* only grow.
C10_WindowFlush ==
    /\ [](/\ Len(losses) <= Window - 1
          /\ Len(EMs) = Len(losses)
          /\ Len(f1s) = Len(losses)
          /\ Len(grad_norms) = Len(losses)
          /\ Len(global_EMs) = Len(global_losses)
          /\ Len(global_f1s) = Len(global_losses)
          /\ Len(global_grad_norms) = Len(global_losses)
          /\ pc \in {"step", "run"} => LengthsMatchProgress
          /\ pc \in {"epoch", "done"}
                => Len(global_losses) = (index_epoch - 1) * (StepsPerEpoch \div Window))
    /\ [][/\ GrowsByAtMostOne(global_losses, global_losses')
          /\ GrowsByAtMostOne(global_EMs, global_EMs')
          /\ GrowsByAtMostOne(global_f1s, global_f1s')
          /\ GrowsByAtMostOne(global_grad_norms, global_grad_norms')
          /\ Len(global_losses') = Len(global_losses) + 1
                => /\ Len(losses) = Window - 1
                   /\ losses' = <<>> /\ EMs' = <<>> /\ f1s' = <<>> /\ grad_norms' = <<>>
                   /\ LET bS == NpRows(yS, batch)
                          bE == NpRows(yE, batch)
                          out == SessRun(stepFn, bS, bE)
                          em == get_exact_match(bS, bE, out.predictionS, out.predictionE)
                          f1 == get_f1(bS, bE, out.predictionS, out.predictionE, max_c_length)
                      IN  /\ Last(global_losses') = NpMean(Append(losses, out.loss))
                          /\ Last(global_EMs') = NpMean(Append(EMs, em.value))
                          /\ Last(global_f1s') = NpMean(Append(f1s, f1.value))
                          /\ Last(global_grad_norms')
                                = NpMean(Append(grad_norms, out.grad_norm))]_vars

\* two epochs of 41 steps have completed: two windows flushed and one step
\* dropped in each
C10_Witness ==
    /\ pc = "done"
    /\ epochs = 2
    /\ Len0(yS) = 2 * Window + 1
    /\ batch_size = 1
    /\ Len(global_losses) = 4
    /\ Len(losses) = 1

\* the hook calls made by the first k epochs: one plot_metrics per epoch, in
\* epoch order, each seeing one validation point per epoch so far
EpochPlotsDone(k) ==
    /\ Len(hookLog) >= k
    /\ \A i \in 1..k :
          /\ hookLog[i].hook = "plot_metrics"
          /\ hookLog[i].epoch = i
          /\ hookLog[i].val = i

\* C11: in a run of E epochs in which no step fails, every epoch consists,
\* in this order, of its floor(N/batchSize) training steps, one validation
\* pass over the validation split that appends one point to each of the two
\* validation histories, and one call of plot_metrics; at every epoch
\* boundary the validation histories hold one point per completed epoch;
\* plot_evaluation_metrics is called exactly once, after the plotting of the
\* last epoch, with validation histories of length E, and no training step
\* follows it.
C11_EpochEventOrder ==
    /\ [](raised = "none" =>
            /\ Len(F1s_val) = Len(EMs_val)
            /\ pc = "epoch"
                  => /\ Len(EMs_val) = index_epoch - 1
                     /\ Len(hookLog) = index_epoch - 1
                     /\ EpochPlotsDone(index_epoch - 1)
            /\ pc \in {"step", "run"}
                  => /\ Len(EMs_val) = index_epoch - 1
                     /\ Len(hookLog) = index_epoch - 1
                     /\ Len(epochLog) = step + (IF pc = "run" THEN 1 ELSE 0)
                     /\ step <= StepsPerEpoch
            /\ pc = "plot"
                  => /\ Len(EMs_val) = index_epoch
                     /\ Len(hookLog) = index_epoch - 1
                     /\ Len(epochLog) = StepsPerEpoch
                     /\ step = StepsPerEpoch
            /\ pc = "done"
                  => /\ Len(EMs_val) = epochs
                     /\ Len(hookLog) = epochs + 1
                     /\ EpochPlotsDone(epochs)
                     /\ hookLog[epochs + 1].hook = "plot_evaluation_metrics"
                     /\ hookLog[epochs + 1].val = epochs)
    /\ [][/\ EMs_val' # EMs_val
                => /\ step = StepsPerEpoch
                   /\ Len(epochLog) = StepsPerEpoch
                   /\ Len(EMs_val) = index_epoch - 1
                   /\ Len(EMs_val') = index_epoch
                   /\ Len(F1s_val') = index_epoch
                   /\ SubSeq(EMs_val', 1, Len(EMs_val)) = EMs_val
                   /\ UNCHANGED <<hookLog, epochLog, step, index_epoch>>
          /\ hookLog' # hookLog
                => /\ Len(hookLog') = Len(hookLog) + 1
                   /\ SubSeq(hookLog', 1, Len(hookLog)) = hookLog
                   /\ UNCHANGED <<valVars, epochLog, step>>
                   /\ IF Last(hookLog').hook = "plot_metrics"
                      THEN /\ Len(EMs_val) = index_epoch
                           /\ Len(hookLog) = index_epoch - 1
                           /\ index_epoch <= epochs
                      ELSE /\ Len(EMs_val) = epochs
                           /\ Len(hookLog) = epochs
                           /\ index_epoch = epochs + 1
          /\ epochLog' # epochLog /\ epochLog' # <<>>
                => /\ index_epoch <= epochs
                   /\ Len(EMs_val) = index_epoch - 1
                   /\ Len(hookLog) = index_epoch - 1
                   /\ Len(epochLog') = Len(epochLog) + 1
                   /\ Len(epochLog') <= StepsPerEpoch
          /\ pc = "done" => UNCHANGED vars]_vars

\* a run of two epochs of one step each has ended without a failure: two
\* calls of plot_metrics, then the one call of plot_evaluation_metrics
C11_Witness ==
    /\ pc = "done"
    /\ raised = "none"
    /\ epochs = 2
    /\ Len0(yS) = 3
    /\ batch_size = 2
    /\ Len(EMs_val) = 2
    /\ Len(hookLog) = 3
    /\ hookLog[1].hook = "plot_metrics"
    /\ hookLog[2].hook = "plot_metrics"
    /\ hookLog[3].hook = "plot_evaluation_metrics"

\* C4: get_exact_match and get_f1 called on zero samples do not raise a
\* divide-by-zero exception (the empty case is guarded and reported as an
\* undefined result).
C4_EmptyMetricsDoNotRaise ==
    (metricOut # Pending /\ Len0(yS) = 0) => metricOut.raised # "ZeroDivisionError"

\* the positions of a 0/1 vector that hold 1
Ones(v) == {j \in DOMAIN v : v[j] = 1}

GoldSet(i) == {j \in 0..(max_c_length - 1) : NpArgmax(yS[i]) <= j /\ j <= NpArgmax(yE[i])}

\* C8: get_f1 is flip-tolerant.  For every sample with predicted indices a
\* and b inside the context, the predicted coverage is exactly the positions
\* min(a, b)..max(a, b); the prediction (a, b) and the prediction (b, a) give
\* the same coverage, the same intersection with the gold span and the same
\* F1 contribution, which is 0 when the intersection is empty and the
\* harmonic mean of precision and recall otherwise; so the returned mean is
\* the one the swapped predictions get.
C8_F1FlipTolerant ==
    (metricOut # Pending /\ metricOut.fn = "get_f1" /\ metricOut.raised = "none")
        => /\ \A i \in DOMAIN ypS :
                 LET a == ypS[i]
                     b == ypE[i]
                     cover == Min(a, b)..Max(a, b)
                     inter == cover \cap GoldSet(i)
                     contrib == F1Sample(yS[i], yE[i], a, b, max_c_length)
                 IN  /\ Ones(PredCoverage(a, b, max_c_length)) = cover
                     /\ Ones(PredCoverage(b, a, max_c_length)) = cover
                     /\ Ones(GoldCoverage(yS[i], yE[i], max_c_length)) = GoldSet(i)
                     /\ contrib = F1Sample(yS[i], yE[i], b, a, max_c_length)
                     /\ inter = {} => contrib = <<0, 1>>
                     /\ inter # {} =>
                           contrib = Rat(2 * Cardinality(inter),
                                         Cardinality(cover) + Cardinality(GoldSet(i)))
           /\ metricOut.value = get_f1(yS, yE, ypE, ypS, max_c_length).value

\* get_f1 has scored a reversed prediction (start after end) that overlaps
\* the gold span without matching it
C8_Witness ==
    /\ metricOut # Pending
    /\ metricOut.fn = "get_f1"
    /\ metricOut.raised = "none"
    /\ \E i \in DOMAIN ypS :
          /\ ypS[i] > ypE[i]
          /\ (ypE[i]..ypS[i]) \cap GoldSet(i) # {}
          /\ (ypE[i]..ypS[i]) # GoldSet(i)
    /\ metricOut.value[1] # 0
    /\ metricOut.value # <<1, 1>>

\* the ids of line i (1-based) of the file, for a line of integer ids
LineIds(i) == [k \in 1..Len(Split(lines[i])) |-> ParseInt(Split(lines[i])[k])]

IntegerLine(i) == \A k \in 1..Len(Split(lines[i])) : IsIntLiteral(Split(lines[i])[k])

\* C7: for a file whose lines hold k >= 0 integer ids each, read_and_pad
\* returns one row and one mask per line, in line order, each of exactly L
\* entries; with m = min(k, L) the first m ids of the row are the first m
\* ids of the line in order, the other L - m ids are the pad value, and the
\* mask is True at exactly the positions 0..m-1; longer lines are truncated
\* without an error.
C7_PadAndMask ==
    (padOut # Pending /\ \A i \in 1..Len(lines) : IntegerLine(i))
        => /\ padOut.raised = "none"
           /\ DOMAIN padOut.ids = 0..(Len(lines) - 1)
           /\ DOMAIN padOut.mask = 0..(Len(lines) - 1)
           /\ \A i \in 1..Len(lines) :
                 LET k == Len(LineIds(i))
                     m == Min(k, length)
                     row == padOut.ids[i - 1]
                     msk == padOut.mask[i - 1]
                 IN  /\ DOMAIN row = 0..(length - 1)
                     /\ DOMAIN msk = 0..(length - 1)
                     /\ \A j \in 0..(length - 1) :
                           /\ j < m => row[j] = LineIds(i)[j + 1]
                           /\ j >= m => row[j] = pad_value
                           /\ msk[j] = (j < m)

\* a two-line file was read: the first line has more ids than the target
\* length (two different ids, so order shows), the second is empty
C7_Witness ==
    /\ padOut # Pending
    /\ padOut.raised = "none"
    /\ Len(lines) = 2
    /\ length = 1
    /\ IntegerLine(1)
    /\ LineIds(1) = <<21, 1>>
    /\ lines[2] = <<>>
    /\ pad_value = 1

\* a row of y whose start or end lies outside [0, max_length)
RowOutOfRange(i) ==
    \/ y[i][1] < 0 \/ y[i][1] >= max_length
    \/ y[i][2] < 0 \/ y[i][2] >= max_length

\* C5: whenever some row has a start or an end that is >= L or < 0
\* (negative values in [-L, -1] included), span_to_y raises IndexError and
\* returns no one-hot arrays.
C5_OutOfRangeAlwaysRaises ==
    (spanOut # Pending /\ \E i \in DOMAIN y : RowOutOfRange(i))
        => spanOut.raised = "IndexError"

OneHotAt(row, len, k) ==
    /\ DOMAIN row = 0..(len - 1)
    /\ \A j \in 0..(len - 1) : row[j] = (IF j = k THEN 1 ELSE 0)
    /\ Cardinality({j \in 0..(len - 1) : row[j] = 1}) = 1

\* C6: for N rows (start, end) with 0 <= start < L and 0 <= end < L, in any
\* order of start and end, span_to_y returns two N-by-L arrays; row i of the
\* start array is one-hot at start[i], row i of the end array is one-hot at
\* end[i], argmax of each row gives back start[i] and end[i], and rows keep
\* their order.
C6_ValidSpansOneHot ==
    (spanOut # Pending /\ \A i \in DOMAIN y : ~RowOutOfRange(i))
        => /\ spanOut.raised = "none"
           /\ DOMAIN spanOut.S = DOMAIN y
           /\ DOMAIN spanOut.E = DOMAIN y
           /\ \A i \in DOMAIN y :
                 /\ OneHotAt(spanOut.S[i], max_length, y[i][1])
                 /\ OneHotAt(spanOut.E[i], max_length, y[i][2])
                 /\ NpArgmax(spanOut.S[i]) = y[i][1]
                 /\ NpArgmax(spanOut.E[i]) = y[i][2]

\* two valid rows, the first with start > end, the second with start < end,
\* have been encoded
C6_Witness ==
    /\ spanOut # Pending
    /\ Len0(y) = 2
    /\ \A i \in DOMAIN y : ~RowOutOfRange(i)
    /\ y[0][1] > y[0][2]
    /\ y[1][1] < y[1][2]
    /\ spanOut.raised = "none"

====
